---------------------------- MODULE Spec2Model ----------------------------
(***************************************************************************)
(* Model of the AI-RecoverOps backend pipeline (src/backend):              *)
(*   log_queue -> FailureDetector -> incident_queue -> RootCauseAnalyzer   *)
(*   -> fix_queue -> FixGenerator -> remediation_queue ->                  *)
(*   RemediationExecutor, plus the REST operations on incidents.           *)
(*                                                                         *)
(* Conventions                                                             *)
(*  - Confidences are integers in percent (0.85 is 85).                    *)
(*  - Time is counted in ticks of one hour.                                *)
(*  - A log message is represented by the facts the code extracts from it: *)
(*    the set of pattern rules whose regex matches it and the set of       *)
(*    substrings ("phrases") it contains; re.search and the `in` operator  *)
(*    are not re-implemented.                                              *)
(*  - ORM calls are read as what they name: session.get returns the row,   *)
(*    query(...).filter(...) the rows satisfying the filter, first() the   *)
(*    first of them or None, commit makes the assignments durable.         *)
(*  - Python attribute lookup is modelled as Python defines it: an         *)
(*    instance attribute shadows a method of the same name.                *)
(*  - Spec, SpecFair and SpecGateway model the stages with their start()  *)
(*    loops running; SpecApp models the tasks main.py's lifespan starts.   *)
(*  - SpecStoreFaults is Spec with commits of the analyzer and of the     *)
(*    generator that may raise; SpecAnalyze runs the analyzer with every   *)
(*    kind of answer of the model backend.                                 *)
(*  - SpecOutage runs the five loops with one outage of Redis or of        *)
(*    PostgreSQL; SpecPattern applies the pattern analysis to every        *)
(*    combination of the substrings it tests.                              *)
(***************************************************************************)
EXTENDS Integers, Sequences, FiniteSets, TLC

VARIABLES
    now,                \* wall clock, in ticks
    settings,           \* config.Settings values fixed at start-up
    signals_sent,       \* number of raw signals pushed so far
    api_calls,          \* number of REST requests served so far
    log_queue,          \* Redis list "log_queue"
    pending_logs,       \* FailureDetector: entries popped, not yet analysed
    incidents,          \* table incidents; the row id is the index
    incident_queue,     \* Redis list "incident_queue"
    fix_queue,          \* Redis list "fix_queue"
    remediations,       \* table remediations
    remediation_queue,  \* Redis list "remediation_queue"
    validation_queue,   \* Redis list "validation_queue"
    executor,           \* RemediationExecutor: loop position and locals
    active_remediations,\* RemediationExecutor.active_remediations
    emergency_stop,     \* RemediationExecutor.emergency_stop (attribute)
    open_prs,           \* external channel: fix pull requests left open
    lastOp,             \* history: the operation that made the last step
    probe,              \* input and result of a classification on its own
    webhook_config,     \* GITHUB_WEBHOOK_SECRET and GITLAB_WEBHOOK_SECRET
    webhook_queue,      \* Redis list "webhook_queue"
    pipeline_runs,      \* table pipeline_runs
    webhook_reply,      \* the last webhook request and the answer it got
    deliveries,         \* number of webhook requests served so far
    infra               \* reachability of Redis and PostgreSQL, loops alive

vars == <<now, settings, signals_sent, api_calls, log_queue, pending_logs, incidents,
          incident_queue, fix_queue, remediations, remediation_queue,
          validation_queue, executor, active_remediations, emergency_stop,
          open_prs, lastOp, probe, webhook_config, webhook_queue,
          pipeline_runs, webhook_reply, deliveries, infra>>

gatewayVars == <<webhook_config, webhook_queue, pipeline_runs, webhook_reply,
                 deliveries>>

pipelineVars == <<now, settings, signals_sent, api_calls, log_queue, pending_logs,
                  incidents, incident_queue, fix_queue, remediations,
                  remediation_queue, validation_queue, executor,
                  active_remediations, emergency_stop, open_prs, lastOp>>

---------------------------------------------------------------------------
(* Bounds of the model                                                     *)

MaxSignals == 2
MaxTime == 1
MaxQueue == 2
MaxApiCalls == 1
MaxCap == 1
MaxDeliveries == 2

---------------------------------------------------------------------------
(* FailureDetector: pattern rules and classification                       *)

\* _load_failure_patterns: the rules in declaration order.
Patterns ==
    << [name |-> "compilation_error",            failure_type |-> "build_failure",      severity |-> "high",     confidence |-> 90],
       [name |-> "dependency_missing",           failure_type |-> "dependency_error",   severity |-> "high",     confidence |-> 85],
       [name |-> "test_assertion_failure",       failure_type |-> "test_failure",       severity |-> "medium",   confidence |-> 80],
       [name |-> "test_timeout",                 failure_type |-> "timeout_error",      severity |-> "medium",   confidence |-> 85],
       [name |-> "kubernetes_deployment_failed", failure_type |-> "deployment_failure", severity |-> "critical", confidence |-> 90],
       [name |-> "docker_build_failed",          failure_type |-> "build_failure",      severity |-> "high",     confidence |-> 85],
       [name |-> "yaml_syntax_error",            failure_type |-> "syntax_error",       severity |-> "medium",   confidence |-> 90],
       [name |-> "json_syntax_error",            failure_type |-> "syntax_error",       severity |-> "medium",   confidence |-> 90],
       [name |-> "permission_denied",            failure_type |-> "permission_error",   severity |-> "high",     confidence |-> 85],
       [name |-> "aws_credentials_error",        failure_type |-> "security_error",     severity |-> "critical", confidence |-> 90],
       [name |-> "connection_timeout",           failure_type |-> "network_error",      severity |-> "medium",   confidence |-> 80],
       [name |-> "dns_resolution_failed",        failure_type |-> "network_error",      severity |-> "medium",   confidence |-> 85],
       [name |-> "out_of_memory",                failure_type |-> "resource_error",     severity |-> "high",     confidence |-> 90],
       [name |-> "disk_space_full",              failure_type |-> "resource_error",     severity |-> "high",     confidence |-> 90] >>

RuleIds == 1..Len(Patterns)

\* The value None of a failure_info.
NoFailure ==
    [failure_type |-> "none", severity |-> "none", confidence |-> 0,
     pattern_name |-> "none"]

\* A comparison of a rule's confidence with the best one seen so far.
BetterThanM(c, highest) == c >= highest
BetterThan(c, highest) == c > highest

\* The loop of _detect_failure_patterns from rule k on: best is the index of
\* best_match (0 for None), highest is highest_confidence.
RECURSIVE BestMatchFrom(_, _, _, _)
BestMatchFrom(k, matched, best, highest) ==
    IF k > Len(Patterns) THEN best
    ELSE IF k \in matched /\ BetterThan(Patterns[k].confidence, highest)
         THEN BestMatchFrom(k + 1, matched, k, Patterns[k].confidence)
         ELSE BestMatchFrom(k + 1, matched, best, highest)

AnyPhrase(phrases, words) == (phrases \cap words) # {}

\* _ml_classify_failure: keyword heuristics, then the level.
MlClassifyFailure(phrases, level) ==
    IF AnyPhrase(phrases, {"build", "compile", "maven", "gradle", "npm"})
    THEN [failure_type |-> "build_failure", severity |-> "high",
          confidence |-> 70, pattern_name |-> "ml_build_failure"]
    ELSE IF AnyPhrase(phrases, {"test", "spec", "junit", "pytest", "mocha"})
    THEN [failure_type |-> "test_failure", severity |-> "medium",
          confidence |-> 70, pattern_name |-> "ml_test_failure"]
    ELSE IF AnyPhrase(phrases, {"deploy", "kubernetes", "docker", "container"})
    THEN [failure_type |-> "deployment_failure", severity |-> "high",
          confidence |-> 70, pattern_name |-> "ml_deployment_failure"]
    ELSE IF level \in {"ERROR", "FATAL"}
    THEN [failure_type |-> "unknown_error", severity |-> "medium",
          confidence |-> 50, pattern_name |-> "ml_unknown_error"]
    ELSE NoFailure

\* _detect_failure_patterns: the best matching rule, else the heuristics.
DetectFailurePatterns(matched, phrases, level) ==
    LET best == BestMatchFrom(1, matched, 0, 0)
    IN  IF best # 0
        THEN [failure_type |-> Patterns[best].failure_type,
              severity     |-> Patterns[best].severity,
              confidence   |-> Patterns[best].confidence,
              pattern_name |-> Patterns[best].name]
        ELSE MlClassifyFailure(phrases, level)

---------------------------------------------------------------------------
(* Raw signals                                                             *)

\* The messages of the model, each with the rules whose regex matches it
\* (re.search, IGNORECASE) and the substrings it contains in lower case:
\*   "yaml"      "invalid yaml in config.yml"
\*   "pipeline"  "Pipeline failed: Unknown error"   (webhook_listener.py:490)
\*   "heartbeat" "heartbeat ok"
MessageIds == {"yaml", "pipeline", "modulenotfound", "heartbeat"}

MsgRules(m) ==
    CASE m = "yaml" -> {7}
      [] m = "pipeline" -> {}
      [] OTHER -> {}

MsgPhrases(m) ==
    CASE m = "yaml" -> {"yaml", "yml"}
      [] m = "pipeline" -> {"failed", "error"}
      [] m = "modulenotfound" -> {"error"}
      [] OTHER -> {}

\* The raw-signal messages a producer pushes on log_queue.
RawSignals ==
    { [source_id |-> "build-42", message |-> "yaml",      level |-> "ERROR"],
      [source_id |-> "build-42", message |-> "pipeline",  level |-> "ERROR"],
      [source_id |-> "build-42", message |-> "modulenotfound",
                                                          level |-> "ERROR"],
      [source_id |-> "build-42", message |-> "heartbeat", level |-> "INFO"] }

\* _contains_failure_keywords
ContainsFailureKeywords(phrases) ==
    AnyPhrase(phrases, {"failed", "error", "exception", "timeout", "denied",
                        "refused", "crashed", "killed", "abort", "panic",
                        "fatal", "critical"})

\* _analyze_log_entry up to the call of _create_incident: the failure_info of
\* a log entry, NoFailure when the entry is skipped.
AnalyzeLogEntry(log) ==
    IF log.level \notin {"ERROR", "FATAL", "WARN"}
       /\ ~ContainsFailureKeywords(MsgPhrases(log.message))
    THEN NoFailure
    ELSE DetectFailurePatterns(MsgRules(log.message), MsgPhrases(log.message),
                               log.level)

---------------------------------------------------------------------------
(* Incidents                                                               *)

IncidentStatuses ==
    {"detected", "analyzing", "fixing", "resolved", "failed", "rolled_back"}

\* timedelta(hours=1) of _find_similar_incident, in ticks.
DedupWindow == 1

\* Number of entries _get_pending_logs pops at most.
LogBatchLimit == 100

\* The statuses the dedup query selects; the variant leaves fixing out.
OpenStatusesM == {"detected", "analyzing"}
OpenStatuses == {"detected", "analyzing", "fixing"}

\* detected_at > cutoff_time; the variant compares the other way round.
AfterCutoffM(detected_at, t) == detected_at < t - DedupWindow
AfterCutoff(detected_at, t) == detected_at > t - DedupWindow

\* The filter of _find_similar_incident: the ids of the rows it selects.
SimilarIncidents(rows, failure_type, source_id, t) ==
    { i \in 1..Len(rows) :
        /\ rows[i].failure_type = failure_type
        /\ rows[i].source_id = source_id
        /\ AfterCutoff(rows[i].detected_at, t)
        /\ rows[i].status \in OpenStatuses }

\* The row _create_incident adds.
NewIncident(log, failure_info, t) ==
    [status           |-> "detected",
     severity         |-> failure_info.severity,
     source_id        |-> log.source_id,
     failure_type     |-> failure_info.failure_type,
     error_message    |-> log.message,
     confidence_score |-> failure_info.confidence,
     root_cause       |-> "None",
     detected_at      |-> t,
     resolved_at      |-> "None"]

Min(a, b) == IF a < b THEN a ELSE b

Op(name, id) == [op |-> name, inc |-> id]

\* The consumer loops: FailureDetector, RootCauseAnalyzer, FixGenerator,
\* RemediationExecutor and the webhook queue processor.
Stages == {"classifier", "analyzer", "generator", "executor", "webhook"}

\* Redis and PostgreSQL reachable, no outage so far, every loop running.
\* down is "none", "queue" (Redis unreachable) or "store" (PostgreSQL
\* unreachable).
InfraUp == [down |-> "none", outages |-> 0, alive |-> Stages]

---------------------------------------------------------------------------
(* Environment                                                             *)

\* A producer (the webhook gateway, a log shipper) pushes a raw signal.
EnqueueSignal ==
    /\ signals_sent < MaxSignals
    /\ Len(log_queue) < MaxQueue
    /\ \E s \in RawSignals : log_queue' = Append(log_queue, s)
    /\ signals_sent' = signals_sent + 1
    /\ lastOp' = Op("enqueue_signal", 0)
    /\ UNCHANGED <<now, settings, api_calls, pending_logs, incidents, incident_queue,
                   fix_queue, remediations, remediation_queue,
                   validation_queue, executor, active_remediations,
                   emergency_stop, open_prs, probe, gatewayVars, infra>>

Tick ==
    /\ now < MaxTime
    /\ now' = now + 1
    /\ lastOp' = Op("tick", 0)
    /\ UNCHANGED <<settings, signals_sent, api_calls, log_queue, pending_logs, incidents,
                   incident_queue, fix_queue, remediations, remediation_queue,
                   validation_queue, executor, active_remediations,
                   emergency_stop, open_prs, probe, gatewayVars, infra>>

---------------------------------------------------------------------------
(* FailureDetector loop                                                    *)

\* _get_pending_logs: pop up to LogBatchLimit entries.
ClassifierFetch ==
    /\ pending_logs = <<>>
    /\ log_queue # <<>>
    /\ LET n == Min(Len(log_queue), LogBatchLimit)
       IN  /\ pending_logs' = SubSeq(log_queue, 1, n)
           /\ log_queue' = SubSeq(log_queue, n + 1, Len(log_queue))
    /\ lastOp' = Op("classifier_fetch", 0)
    /\ UNCHANGED <<now, settings, signals_sent, api_calls, incidents, incident_queue,
                   fix_queue, remediations, remediation_queue,
                   validation_queue, executor, active_remediations,
                   emergency_stop, open_prs, probe, gatewayVars, infra>>

\* _analyze_log_entry on the next popped entry, with _create_incident and
\* _notify_incident_created.
ClassifierAnalyze ==
    /\ pending_logs # <<>>
    /\ pending_logs' = Tail(pending_logs)
    /\ LET log  == Head(pending_logs)
           info == AnalyzeLogEntry(log)
       IN  IF info = NoFailure
           THEN /\ lastOp' = Op("classifier_skip", 0)
                /\ UNCHANGED <<incidents, incident_queue>>
           ELSE IF SimilarIncidents(incidents, info.failure_type,
                                    log.source_id, now) # {}
           THEN /\ lastOp' = Op("classifier_suppress",
                                CHOOSE i \in SimilarIncidents(incidents,
                                    info.failure_type, log.source_id, now) :
                                    TRUE)
                /\ UNCHANGED <<incidents, incident_queue>>
           ELSE /\ incidents' = Append(incidents, NewIncident(log, info, now))
                /\ incident_queue' = Append(incident_queue, Len(incidents) + 1)
                /\ lastOp' = Op("classifier_create", Len(incidents) + 1)
    /\ UNCHANGED <<now, settings, signals_sent, api_calls, log_queue, fix_queue,
                   remediations, remediation_queue, validation_queue,
                   executor, active_remediations, emergency_stop, open_prs, probe, gatewayVars, infra>>

---------------------------------------------------------------------------
(* RootCauseAnalyzer                                                       *)

\* f"Generic {failure_type.replace('_', ' ')} issue"
GenericIssue(failure_type) ==
    CASE failure_type = "build_failure"       -> "Generic build failure issue"
      [] failure_type = "test_failure"        -> "Generic test failure issue"
      [] failure_type = "deployment_failure"  -> "Generic deployment failure issue"
      [] failure_type = "dependency_error"    -> "Generic dependency error issue"
      [] failure_type = "syntax_error"        -> "Generic syntax error issue"
      [] failure_type = "permission_error"    -> "Generic permission error issue"
      [] failure_type = "network_error"       -> "Generic network error issue"
      [] failure_type = "resource_error"      -> "Generic resource error issue"
      [] failure_type = "timeout_error"       -> "Generic timeout error issue"
      [] failure_type = "configuration_error" -> "Generic configuration error issue"
      [] failure_type = "security_error"      -> "Generic security error issue"
      [] OTHER                                -> "Generic unknown error issue"

\* _analyze_error_patterns; the variant tests the timeout phrases before the
\* permission phrases.
AnalyzeErrorPatternsM(phrases, failure_type) ==
    IF AnyPhrase(phrases, {"not found", "missing"})
    THEN "Missing dependency or resource"
    ELSE IF AnyPhrase(phrases, {"timeout", "timed out"})
    THEN "Network or service timeout"
    ELSE IF AnyPhrase(phrases, {"permission denied", "access denied"})
    THEN "Permission or access rights issue"
    ELSE IF AnyPhrase(phrases, {"out of memory", "oom"})
    THEN "Memory resource exhaustion"
    ELSE IF AnyPhrase(phrases, {"syntax error", "parse error"})
    THEN "Configuration or code syntax error"
    ELSE IF AnyPhrase(phrases, {"connection refused", "connection failed"})
    THEN "Network connectivity issue"
    ELSE GenericIssue(failure_type)
AnalyzeErrorPatterns(phrases, failure_type) ==
    IF AnyPhrase(phrases, {"not found", "missing"})
    THEN "Missing dependency or resource"
    ELSE IF AnyPhrase(phrases, {"permission denied", "access denied"})
    THEN "Permission or access rights issue"
    ELSE IF AnyPhrase(phrases, {"timeout", "timed out"})
    THEN "Network or service timeout"
    ELSE IF AnyPhrase(phrases, {"out of memory", "oom"})
    THEN "Memory resource exhaustion"
    ELSE IF AnyPhrase(phrases, {"syntax error", "parse error"})
    THEN "Configuration or code syntax error"
    ELSE IF AnyPhrase(phrases, {"connection refused", "connection failed"})
    THEN "Network connectivity issue"
    ELSE GenericIssue(failure_type)

\* The RootCauseAnalysis _pattern_based_analysis returns for an error message
\* with these substrings: root cause and the fixed confidence.
PatternAnalysisOf(phrases, failure_type) ==
    [root_cause |-> AnalyzeErrorPatterns(phrases, failure_type),
     confidence |-> 60,
     method     |-> "pattern_analysis"]

\* _pattern_based_analysis
PatternBasedAnalysis(incident) ==
    PatternAnalysisOf(MsgPhrases(incident.error_message),
                      incident.failure_type)

\* What the model backend may answer to the analysis prompt: the call fails
\* or answers something that is no JSON object, the content is no JSON, the
\* response has no choices, or the content is a JSON object with or without a
\* "confidence" member.
LLMReplies ==
    { [kind |-> "call_failed", has_confidence |-> FALSE, confidence |-> 0],
      [kind |-> "not_json",    has_confidence |-> FALSE, confidence |-> 0],
      [kind |-> "no_choices",  has_confidence |-> FALSE, confidence |-> 0],
      [kind |-> "json",        has_confidence |-> FALSE, confidence |-> 0] }
    \cup { [kind |-> "json", has_confidence |-> TRUE, confidence |-> c] :
             c \in {-10, 75, 85, 150} }

\* The answers taken in the pipeline specification.
PipelineLLMReplies ==
    { r \in LLMReplies :
        r.kind = "call_failed" \/ (r.has_confidence /\ r.confidence > 0) }

\* _parse_llm_response followed by the construction of RootCauseAnalysis in
\* _llm_root_cause_analysis; the except branch falls back to the patterns.
LLMRootCauseAnalysis(incident, reply) ==
    CASE reply.kind = "call_failed" -> PatternBasedAnalysis(incident)
      [] reply.kind = "not_json" ->
            [root_cause |-> "Analysis completed", confidence |-> 70,
             method |-> "llm_analysis"]
      [] reply.kind = "no_choices" ->
            [root_cause |-> "Analysis failed", confidence |-> 50,
             method |-> "llm_analysis"]
      [] OTHER ->
            [root_cause |-> "LLM root cause",
             confidence |-> IF reply.has_confidence THEN reply.confidence
                            ELSE 70,
             method |-> "llm_analysis"]

\* analyze_incident: the strategy is chosen by the presence of the client.
AnalyzeIncident(incident, reply) ==
    IF settings.openai_client
    THEN LLMRootCauseAnalysis(incident, reply)
    ELSE PatternBasedAnalysis(incident)

\* _update_incident_with_analysis; the variant leaves the row as it was.
UpdateIncidentWithAnalysisM(incident, analysis) == incident
UpdateIncidentWithAnalysis(incident, analysis) ==
    [incident EXCEPT !.root_cause = analysis.root_cause,
                     !.confidence_score = analysis.confidence,
                     !.status = "analyzing"]

\* _process_pending_incidents: one message of incident_queue.
AnalyzerStep ==
    /\ incident_queue # <<>>
    /\ incident_queue' = Tail(incident_queue)
    /\ LET id == Head(incident_queue)
       IN  \E reply \in (IF settings.openai_client THEN PipelineLLMReplies
                         ELSE {CHOOSE r \in LLMReplies : r.kind = "call_failed"}) :
             LET analysis == AnalyzeIncident(incidents[id], reply)
             IN  /\ incidents' = [incidents EXCEPT ![id] =
                                    UpdateIncidentWithAnalysis(@, analysis)]
                 /\ fix_queue' = Append(fix_queue, id)
                 /\ lastOp' = Op("analyzer_update", id)
    /\ UNCHANGED <<now, settings, signals_sent, api_calls, log_queue, pending_logs,
                   remediations, remediation_queue, validation_queue,
                   executor, active_remediations, emergency_stop, open_prs, probe, gatewayVars, infra>>

\* _process_pending_incidents when the commit of
\* _update_incident_with_analysis raises: the except clause of that method
\* logs the error, the row is not changed, and _queue_for_fix_generation is
\* called all the same.
AnalyzerStepStoreFault ==
    /\ incident_queue # <<>>
    /\ incident_queue' = Tail(incident_queue)
    /\ fix_queue' = Append(fix_queue, Head(incident_queue))
    /\ lastOp' = Op("analyzer_write_failed", Head(incident_queue))
    /\ UNCHANGED <<now, settings, signals_sent, api_calls, log_queue, pending_logs,
                   incidents, remediations, remediation_queue, validation_queue,
                   executor, active_remediations, emergency_stop, open_prs, probe, gatewayVars, infra>>

---------------------------------------------------------------------------
(* FixGenerator                                                            *)

Fix(fix_type, confidence, rollback_keys) ==
    [fix_type |-> fix_type, confidence |-> confidence,
     rollback_keys |-> rollback_keys]

\* What the model backend may answer to a fix prompt.
FixReplies ==
    { [kind |-> "call_failed", has_confidence |-> FALSE, confidence |-> 0],
      [kind |-> "not_json",    has_confidence |-> FALSE, confidence |-> 0],
      [kind |-> "json",        has_confidence |-> TRUE,  confidence |-> 90] }

\* _generate_code_fix with _parse_fix_response: a sequence of zero or one fix.
GenerateCodeFix(reply) ==
    CASE reply.kind = "call_failed" -> <<>>
      [] reply.kind = "not_json" ->
            << Fix("code_patch", 60, {"original_content"}) >>
      [] OTHER ->
            << Fix("code_patch",
                   IF reply.has_confidence THEN reply.confidence ELSE 70,
                   {"original_content"}) >>

\* _generate_kubernetes_fix
GenerateKubernetesFix(phrases) ==
    IF AnyPhrase(phrases, {"memory", "oom"})
    THEN << Fix("kubernetes_fix", 80, {"previous_limits"}) >>
    ELSE IF AnyPhrase(phrases, {"imagepullbackoff", "image"})
    THEN << Fix("kubernetes_fix", 75, {}) >>
    ELSE <<>>

\* _generate_docker_fix
GenerateDockerFix(phrases) ==
    IF "permission denied" \in phrases
    THEN << Fix("dockerfile_fix", 80, {}) >>
    ELSE <<>>

\* _generate_generic_infra_fix
GenerateGenericInfraFix(phrases) ==
    IF "resource" \in phrases /\ "limit" \in phrases
    THEN << Fix("config_fix", 60, {}) >>
    ELSE <<>>

\* _generate_infrastructure_fix
GenerateInfrastructureFix(phrases) ==
    IF "kubernetes" \in phrases THEN GenerateKubernetesFix(phrases)
    ELSE IF "docker" \in phrases THEN GenerateDockerFix(phrases)
    ELSE GenerateGenericInfraFix(phrases)

\* _generate_syntax_fix
GenerateSyntaxFix(phrases) ==
    IF AnyPhrase(phrases, {"yaml", "yml"})
    THEN << Fix("yaml_fix", 70, {}) >>
    ELSE IF "json" \in phrases
    THEN << Fix("config_fix", 70, {}) >>
    ELSE <<>>

\* _generate_dependency_fix; "package regex" stands for a match of
\* module '...' not found | package '...' not found.
GenerateDependencyFix(phrases) ==
    IF "package regex" \in phrases
       /\ AnyPhrase(phrases, {"python", ".py", "node", "npm"})
    THEN << Fix("dependency_update", 85, {"added_package"}) >>
    ELSE <<>>

\* _generate_config_fix
GenerateConfigFix(failure_type, phrases) ==
    IF failure_type = "syntax_error" THEN GenerateSyntaxFix(phrases)
    ELSE IF failure_type = "dependency_error" THEN GenerateDependencyFix(phrases)
    ELSE <<>>

\* _llm_generate_fixes
LLMGenerateFixes(incident, reply) ==
    LET phrases == MsgPhrases(incident.error_message)
        ft      == incident.failure_type
    IN  (IF ft \in {"build_failure", "syntax_error", "dependency_error"}
         THEN GenerateCodeFix(reply) ELSE <<>>)
        \o (IF ft \in {"deployment_failure", "resource_error"}
            THEN GenerateInfrastructureFix(phrases) ELSE <<>>)
        \o GenerateConfigFix(ft, phrases)

\* _template_generate_fixes
TemplateGenerateFixes(incident) ==
    LET phrases == MsgPhrases(incident.error_message)
        ft      == incident.failure_type
    IN  IF ft = "dependency_error"
        THEN IF "not found" \in phrases
             THEN << Fix("dependency_update", 60, {}) >>
             ELSE <<>>
        ELSE IF ft = "syntax_error"
        THEN << Fix("config_fix", 70, {}) >>
        ELSE IF ft = "permission_error"
        THEN << Fix("script_fix", 75, {}) >>
        ELSE <<>>

\* The confidence generate_fixes compares confidence_score with.
LLMFixThreshold == 70

\* Settings.AI_CONFIDENCE_THRESHOLD at its default, 0.8.
AI_CONFIDENCE_THRESHOLD == 80

\* generate_fixes: the choice between the two strategies.
UseLLMGeneration(incident) ==
    settings.openai_client /\ incident.confidence_score > LLMFixThreshold

GenerateFixes(incident, reply) ==
    IF UseLLMGeneration(incident)
    THEN LLMGenerateFixes(incident, reply)
    ELSE TemplateGenerateFixes(incident)

\* The rows _create_remediation_records adds for the fixes of one incident.
RemediationRecords(id, fixes) ==
    [k \in 1..Len(fixes) |->
        [incident_id   |-> id,
         fix_type      |-> fixes[k].fix_type,
         status        |-> "pending",
         success       |-> "None",
         confidence    |-> fixes[k].confidence,
         rollback_keys |-> fixes[k].rollback_keys]]

\* The fixes as _queue_for_remediation serialises them; the variant lists
\* them last first.
QueuedFixesM(fixes) ==
    [k \in 1..Len(fixes) |->
        [fix_type   |-> fixes[Len(fixes) + 1 - k].fix_type,
         confidence |-> fixes[Len(fixes) + 1 - k].confidence]]
QueuedFixes(fixes) ==
    [k \in 1..Len(fixes) |->
        [fix_type |-> fixes[k].fix_type, confidence |-> fixes[k].confidence]]

\* The test 'if fixes:' of _process_pending_fixes; the variant goes on with an
\* empty list too.
HasFixesM(fixes) == TRUE
HasFixes(fixes) == fixes # <<>>

\* _process_pending_fixes: one message of fix_queue.
GeneratorStep ==
    /\ fix_queue # <<>>
    /\ fix_queue' = Tail(fix_queue)
    /\ LET id == Head(fix_queue)
       IN  \E reply \in (IF UseLLMGeneration(incidents[id]) THEN FixReplies
                         ELSE {CHOOSE r \in FixReplies : r.kind = "call_failed"}) :
             LET fixes == GenerateFixes(incidents[id], reply)
             IN  IF HasFixes(fixes)
                 THEN /\ remediations' = remediations \o RemediationRecords(id, fixes)
                      /\ remediation_queue' = Append(remediation_queue,
                            [incident_id |-> id, has_fixes |-> TRUE,
                             fixes |-> QueuedFixes(fixes)])
                      /\ lastOp' = Op("generator_queue", id)
                 ELSE /\ lastOp' = Op("generator_none", id)
                      /\ UNCHANGED <<remediations, remediation_queue>>
    /\ UNCHANGED <<now, settings, signals_sent, api_calls, log_queue, pending_logs,
                   incidents, incident_queue, validation_queue, executor,
                   active_remediations, emergency_stop, open_prs, probe, gatewayVars, infra>>

\* _process_pending_fixes when fixes were generated and the commit of
\* _create_remediation_records raises: the except clause of that method logs
\* the error, no row is stored, and _queue_for_remediation is called all the
\* same.
GeneratorStepStoreFault ==
    /\ fix_queue # <<>>
    /\ fix_queue' = Tail(fix_queue)
    /\ LET id == Head(fix_queue)
       IN  \E reply \in (IF UseLLMGeneration(incidents[id]) THEN FixReplies
                         ELSE {CHOOSE r \in FixReplies : r.kind = "call_failed"}) :
             LET fixes == GenerateFixes(incidents[id], reply)
             IN  /\ HasFixes(fixes)
                 /\ remediation_queue' = Append(remediation_queue,
                       [incident_id |-> id, has_fixes |-> TRUE,
                        fixes |-> QueuedFixes(fixes)])
                 /\ lastOp' = Op("generator_write_failed", id)
    /\ UNCHANGED <<now, settings, signals_sent, api_calls, log_queue, pending_logs,
                   incidents, incident_queue, remediations, validation_queue,
                   executor, active_remediations, emergency_stop, open_prs, probe, gatewayVars, infra>>

---------------------------------------------------------------------------
(* RemediationExecutor                                                     *)

ExecutorIdle ==
    [pc |-> "idle", incident_id |-> 0, fixes |-> <<>>, idx |-> 0,
     results |-> <<>>]

\* The in-flight map with an entry added, removed, or all entries cancelled.
ActiveWith(active, id) ==
    [k \in (DOMAIN active) \cup {id} |->
        IF k = id THEN "in_progress" ELSE active[k]]

\* self.active_remediations.pop(incident_id, None); the variant leaves the
\* entry in the map.
ActiveWithoutM(active, id) == active
ActiveWithout(active, id) ==
    [k \in (DOMAIN active) \ {id} |-> active[k]]

ActiveCancelled(active) ==
    [k \in DOMAIN active |-> "cancelled"]

\* The concurrency check of _process_pending_remediations.
CapReachedM(active) == Cardinality(DOMAIN active) > settings.max_concurrent
CapReached(active) == Cardinality(DOMAIN active) >= settings.max_concurrent

\* RedisClient.lpop: what is left of a list after its head is popped. The
\* variant reads the head and leaves it on the list.
LPopM(queue) == queue
LPop(queue) == Tail(queue)

\* An iteration of the loop of start (guarded by emergency_stop) and
\* _process_pending_remediations up to the first fix: the flag and cap
\* checks, lpop, request["fixes"] (KeyError for a message without fixes, which
\* the handler logs), then the entry of _execute_remediation: the in-flight
\* entry and status fixing.
ExecutorDequeue ==
    /\ executor.pc = "idle"
    /\ ~emergency_stop
    /\ settings.auto_remediation
    /\ ~CapReached(active_remediations)
    /\ remediation_queue # <<>>
    /\ remediation_queue' = LPop(remediation_queue)
    /\ LET request == Head(remediation_queue)
           id      == request.incident_id
       IN  IF ~request.has_fixes
           THEN /\ lastOp' = Op("executor_keyerror", id)
                /\ UNCHANGED <<executor, active_remediations, incidents>>
           ELSE /\ active_remediations' = ActiveWith(active_remediations, id)
                /\ incidents' = [incidents EXCEPT ![id].status = "fixing"]
                /\ executor' = [pc |-> "executing", incident_id |-> id,
                                fixes |-> request.fixes, idx |-> 1,
                                results |-> <<>>]
                /\ lastOp' = Op("executor_accept", id)
    /\ UNCHANGED <<now, settings, signals_sent, api_calls, log_queue, pending_logs,
                   incident_queue, fix_queue, remediations, validation_queue,
                   emergency_stop, open_prs, probe, gatewayVars, infra>>

\* What applying a fix through its channel may give: a pull request opened,
\* success without a pull request (the GitLab branch), or a failure (no
\* repository, no client, an API error, no file updated).
FixOutcomes == {"pull_request", "success", "failed"}

\* The abort rule after a fix: confidence is fix.get("confidence", 0).
LowConfidenceM(confidence) == confidence > 80
LowConfidence(confidence) == confidence < 80

\* The test of line 170; the variant stops the loop at any failed fix.
ShouldAbortM(success, confidence) == ~success
ShouldAbort(success, confidence) == ~success /\ LowConfidence(confidence)

\* One iteration of the loop over the fixes in _execute_remediation.
ExecutorExecuteFix ==
    /\ executor.pc = "executing"
    /\ executor.idx <= Len(executor.fixes)
    /\ ~emergency_stop
    /\ \E outcome \in FixOutcomes :
         LET fix     == executor.fixes[executor.idx]
             success == outcome # "failed"
         IN  /\ executor' = [executor EXCEPT
                    !.results = Append(@, success),
                    !.idx = IF ShouldAbort(success, fix.confidence)
                            THEN Len(executor.fixes) + 1
                            ELSE executor.idx + 1]
             /\ open_prs' = IF outcome = "pull_request"
                            THEN open_prs \cup {executor.incident_id}
                            ELSE open_prs
             /\ lastOp' = Op(IF success THEN "executor_fix_ok"
                             ELSE "executor_fix_failed", executor.incident_id)
    /\ UNCHANGED <<now, settings, signals_sent, api_calls, log_queue, pending_logs,
                   incidents, incident_queue, fix_queue, remediations,
                   remediation_queue, validation_queue, active_remediations,
                   emergency_stop, probe, gatewayVars, infra>>

\* success_count > 0; the variant asks every result to be a success.
OverallSuccessM(results) ==
    \A k \in 1..Len(results) : results[k]
OverallSuccess(results) ==
    \E k \in 1..Len(results) : results[k]

\* The end of _execute_remediation: the overall result, the incident status,
\* _trigger_validation, and the finally clause.
ExecutorFinish ==
    /\ executor.pc = "executing"
    /\ executor.idx > Len(executor.fixes) \/ emergency_stop
    /\ LET id == executor.incident_id
           overall_success == OverallSuccess(executor.results)
       IN  /\ incidents' = [incidents EXCEPT ![id].status =
                               IF overall_success THEN "resolved" ELSE "failed"]
           /\ validation_queue' = IF overall_success
                                  THEN Append(validation_queue, id)
                                  ELSE validation_queue
           /\ active_remediations' = ActiveWithout(active_remediations, id)
           /\ lastOp' = Op(IF overall_success THEN "executor_resolved"
                           ELSE "executor_failed", id)
    /\ executor' = ExecutorIdle
    /\ UNCHANGED <<now, settings, signals_sent, api_calls, log_queue, pending_logs,
                   incident_queue, fix_queue, remediations, remediation_queue,
                   emergency_stop, open_prs, probe, gatewayVars, infra>>

\* What remediation_executor.emergency_stop evaluates to: __init__ binds the
\* name on the instance to a bool, and an instance attribute is found before
\* the method of the class.
EmergencyStopIsMethod == FALSE

\* POST /api/emergency-stop (main.py) for an admin: the call of
\* remediation_executor.emergency_stop(). When the name is not callable the
\* call raises TypeError and the handler answers 500.
EmergencyStopRequest ==
    /\ api_calls < MaxApiCalls
    /\ api_calls' = api_calls + 1
    /\ IF EmergencyStopIsMethod
       THEN /\ emergency_stop' = TRUE
            /\ active_remediations' = ActiveCancelled(active_remediations)
            /\ lastOp' = Op("emergency_stop_200", 0)
       ELSE /\ lastOp' = Op("emergency_stop_500", 0)
            /\ UNCHANGED <<emergency_stop, active_remediations>>
    /\ UNCHANGED <<now, settings, signals_sent, log_queue, pending_logs,
                   incidents, incident_queue, fix_queue, remediations,
                   remediation_queue, validation_queue, executor, open_prs,
                   probe, gatewayVars, infra>>

\* The rows rollback_remediation selects.
SuccessfulRemediations(rows, id) ==
    { k \in 1..Len(rows) : rows[k].incident_id = id /\ rows[k].success = "True" }

\* rollback_remediation, called by POST /api/incidents/{id}/rollback on a
\* new RemediationExecutor. No statement of the loop body raises, so
\* rollback_success stays True.
RollbackIncident ==
    /\ api_calls < MaxApiCalls
    /\ api_calls' = api_calls + 1
    /\ \E id \in 1..Len(incidents) :
         LET rows == SuccessfulRemediations(remediations, id)
         IN  /\ remediations' =
                   [k \in 1..Len(remediations) |->
                      IF k \in rows
                      THEN [remediations[k] EXCEPT !.status = "rolled_back"]
                      ELSE remediations[k]]
             /\ open_prs' =
                   IF settings.github_client
                      /\ \E k \in rows : "pr_number" \in remediations[k].rollback_keys
                   THEN open_prs \ {id}
                   ELSE open_prs
             /\ incidents' = [incidents EXCEPT ![id].status = "rolled_back"]
             /\ lastOp' = Op("rollback", id)
    /\ UNCHANGED <<now, settings, signals_sent, log_queue, pending_logs,
                   incident_queue, fix_queue, remediation_queue,
                   validation_queue, executor, active_remediations,
                   emergency_stop, probe, gatewayVars, infra>>

---------------------------------------------------------------------------
(* REST operations on incidents                                            *)

\* The status strings PUT requests carry: update_data.status is any string.
StatusInputs == {"resolved", "closed"}

\* PUT /api/incidents/{id} with a status and no severity or description.
UpdateIncident ==
    /\ api_calls < MaxApiCalls
    /\ api_calls' = api_calls + 1
    /\ \E id \in 1..Len(incidents), st \in StatusInputs :
         /\ incidents' = [incidents EXCEPT ![id].status = st]
         /\ lastOp' = Op("update_incident", id)
    /\ UNCHANGED <<now, settings, signals_sent, log_queue, pending_logs,
                   incident_queue, fix_queue, remediations, remediation_queue,
                   validation_queue, executor, active_remediations,
                   emergency_stop, open_prs, probe, gatewayVars, infra>>

\* POST /api/incidents/{id}/remediate: 400 for resolved and fixing, else a
\* message without fixes and status fixing.
TriggerRemediation ==
    /\ api_calls < MaxApiCalls
    /\ api_calls' = api_calls + 1
    /\ Len(remediation_queue) < MaxQueue
    /\ \E id \in 1..Len(incidents) :
         /\ incidents[id].status \notin {"resolved", "fixing"}
         /\ remediation_queue' = Append(remediation_queue,
               [incident_id |-> id, has_fixes |-> FALSE, fixes |-> <<>>])
         /\ incidents' = [incidents EXCEPT ![id].status = "fixing"]
         /\ lastOp' = Op("trigger_remediation", id)
    /\ UNCHANGED <<now, settings, signals_sent, log_queue, pending_logs,
                   incident_queue, fix_queue, remediations, validation_queue,
                   executor, active_remediations, emergency_stop, open_prs, probe, gatewayVars, infra>>

---------------------------------------------------------------------------
(* Webhook gateway                                                         *)

\* The values of GITHUB_WEBHOOK_SECRET and GITLAB_WEBHOOK_SECRET: unset or a
\* secret.
WebhookConfigs ==
    [github_secret : {"None", "secret"}, gitlab_secret : {"None", "secret"}]

\* The external pipeline ids deliveries carry: str(workflow_run["id"]) and
\* str(object_attributes["id"]) are the platform's run id, Jenkins' id is
\* f"{name}_{number}".
ExternalIds == {"42", "43"}

JenkinsId(id) == IF id = "42" THEN "app_42" ELSE "app_43"

\* The requests a platform or anyone else may send. credential is the
\* X-Hub-Signature-256 header measured against the HMAC-SHA256 of the body
\* under the configured secret ("None": no header, "valid": that digest,
\* "invalid": any other string), or the X-Gitlab-Token header ("None": no
\* header, "secret": the configured value, "invalid": any other string).
GithubRequests ==
    [platform : {"github"}, credential : {"None", "valid", "invalid"},
     event_type : {"workflow_run"}, id : ExternalIds,
     action : {"completed"}, status : {"completed"},
     conclusion : {"failure", "success"}]
    \cup
    [platform : {"github"}, credential : {"None", "valid", "invalid"},
     event_type : {"workflow_run"}, id : ExternalIds,
     action : {"in_progress"}, status : {"in_progress"},
     conclusion : {"None"}]
    \cup
    [platform : {"github"}, credential : {"valid"},
     event_type : {"ping"}, id : {"42"},
     action : {"None"}, status : {"None"}, conclusion : {"None"}]

GitlabRequests ==
    [platform : {"gitlab"}, credential : {"None", "secret", "invalid"},
     event_type : {"Pipeline Hook"}, id : ExternalIds,
     action : {"None"}, status : {"failed", "success"},
     conclusion : {"None"}]

JenkinsRequests ==
    [platform : {"jenkins"}, credential : {"None"},
     event_type : {"build_event"}, id : ExternalIds,
     action : {"None"}, status : {"FAILURE", "SUCCESS", "ABORTED"},
     conclusion : {"None"}]

NoRequest ==
    [platform |-> "None", credential |-> "None", event_type |-> "None",
     id |-> "None", action |-> "None", status |-> "None",
     conclusion |-> "None"]

NoReply == [request |-> NoRequest, status |-> 0, event |-> "None"]

\* _verify_github_signature: True without a secret or without a header,
\* else the constant-time comparison with the expected digest.
VerifyGithubSignature(secret, signature) ==
    IF secret = "None" \/ signature = "None"
    THEN TRUE
    ELSE signature = "valid"

\* token != settings.GITLAB_WEBHOOK_SECRET
GitlabTokenDiffers(secret, token) == token # secret

\* The check a handler makes before it parses the payload.
VerificationFails(config, request) ==
    CASE request.platform = "github" ->
            ~VerifyGithubSignature(config.github_secret, request.credential)
      [] request.platform = "gitlab" ->
            GitlabTokenDiffers(config.gitlab_secret, request.credential)
      [] OTHER -> FALSE

\* The status code a handler's except clause gives an exception raised in
\* its try block: HTTPException is an Exception, so the 403 raised on a
\* failed verification is caught and replaced, and the route's own except
\* clause does the same to what the handler raises.
HandlerStatus(raised) == 500

\* _queue_webhook_event: the envelope pushed on webhook_queue.
WebhookEvent(request) ==
    [platform |-> request.platform, event_type |-> request.event_type,
     id |-> request.id, action |-> request.action, status |-> request.status,
     conclusion |-> request.conclusion]

\* POST /webhooks/github, /webhooks/gitlab, /webhooks/jenkins: the route and
\* handle_<platform>_webhook.
WebhookRequest ==
    /\ deliveries < MaxDeliveries
    /\ Len(webhook_queue) < MaxQueue
    /\ deliveries' = deliveries + 1
    /\ \E request \in GithubRequests \cup GitlabRequests \cup JenkinsRequests :
         IF VerificationFails(webhook_config, request)
         THEN /\ webhook_reply' = [request |-> request,
                                   status |-> HandlerStatus(403),
                                   event |-> "None"]
              /\ lastOp' = Op("webhook_rejected", 0)
              /\ UNCHANGED webhook_queue
         ELSE /\ webhook_queue' = Append(webhook_queue, WebhookEvent(request))
              /\ webhook_reply' = [request |-> request, status |-> 200,
                                   event |-> request.event_type]
              /\ lastOp' = Op("webhook_received", 0)
    /\ UNCHANGED <<now, settings, signals_sent, api_calls, log_queue,
                   pending_logs, incidents, incident_queue, fix_queue,
                   remediations, remediation_queue, validation_queue,
                   executor, active_remediations, emergency_stop, open_prs,
                   probe, webhook_config, pipeline_runs, infra>>

\* _map_github_status, _map_gitlab_status, _map_jenkins_status
MapGithubStatus(status, conclusion) ==
    IF status = "completed" /\ conclusion = "success" THEN "success"
    ELSE IF status = "completed" /\ conclusion = "failure" THEN "failed"
    ELSE IF status = "completed" /\ conclusion = "cancelled" THEN "cancelled"
    ELSE IF status = "in_progress" THEN "running"
    ELSE "pending"

MapGitlabStatus(status) ==
    CASE status = "success"  -> "success"
      [] status = "failed"   -> "failed"
      [] status = "canceled" -> "cancelled"
      [] status = "running"  -> "running"
      [] OTHER               -> "pending"

MapJenkinsStatus(status) ==
    CASE status = "SUCCESS"  -> "success"
      [] status = "FAILURE"  -> "failed"
      [] status = "ABORTED"  -> "cancelled"
      [] status = "UNSTABLE" -> "failed"
      [] OTHER               -> "running"

\* The keyword arguments _process_github_workflow_run, _process_gitlab_pipeline
\* and _process_jenkins_event pass to _create_or_update_pipeline_run.
RunArguments(event) ==
    CASE event.platform = "github" ->
            [platform |-> "github", pipeline_id |-> event.id,
             status |-> MapGithubStatus(event.status, event.conclusion)]
      [] event.platform = "gitlab" ->
            [platform |-> "gitlab", pipeline_id |-> event.id,
             status |-> MapGitlabStatus(event.status)]
      [] OTHER ->
            [platform |-> "jenkins", pipeline_id |-> JenkinsId(event.id),
             status |-> MapJenkinsStatus(event.status)]

\* The filter of _create_or_update_pipeline_run: the rows it may update.
SameRun(row, kwargs) == row.pipeline_id = kwargs.pipeline_id

ExistingRuns(rows, kwargs) ==
    { k \in 1..Len(rows) : SameRun(rows[k], kwargs) }

\* _create_or_update_pipeline_run: the table after the call and the index of
\* the row returned. An update sets the columns the row has (platform is
\* not one of them); error_message and source_type are never passed.
UpsertPipelineRun(rows, kwargs) ==
    IF ExistingRuns(rows, kwargs) # {}
    THEN LET k == CHOOSE i \in ExistingRuns(rows, kwargs) :
                     \A j \in ExistingRuns(rows, kwargs) : i <= j
         IN  [rows |-> [rows EXCEPT ![k].status = kwargs.status], row |-> k]
    ELSE [rows |-> Append(rows, [pipeline_id |-> kwargs.pipeline_id,
                                 platform |-> kwargs.platform,
                                 status |-> kwargs.status,
                                 error_message |-> "None"]),
          row |-> Len(rows) + 1]

\* The condition under which a processed event triggers failure detection.
IsTerminalFailure(event) ==
    CASE event.platform = "github" ->
            event.action = "completed" /\ event.conclusion = "failure"
      [] event.platform = "gitlab" -> event.status = "failed"
      [] OTHER -> event.status \in {"FAILURE", "ABORTED"}

\* _trigger_failure_detection: the log entry built from the pipeline run;
\* its message is f"Pipeline failed: {error_message or 'Unknown error'}".
FailureSignal(run) ==
    [source_id |-> run.pipeline_id,
     message |-> IF run.error_message = "None" THEN "pipeline" ELSE "other",
     level |-> "ERROR"]

\* Whether the event is one the dispatch of _process_webhook_queue handles.
IsPipelineEvent(event) ==
    \/ event.platform = "github" /\ event.event_type = "workflow_run"
    \/ event.platform = "gitlab" /\ event.event_type = "Pipeline Hook"
    \/ event.platform = "jenkins"

\* One iteration of _process_webhook_queue on a queued event.
ProcessWebhookQueue ==
    /\ webhook_queue # <<>>
    /\ Len(log_queue) < MaxQueue
    /\ webhook_queue' = Tail(webhook_queue)
    /\ LET event == Head(webhook_queue)
           up    == UpsertPipelineRun(pipeline_runs, RunArguments(event))
       IN  IF ~IsPipelineEvent(event)
           THEN /\ lastOp' = Op("gateway_ignored", 0)
                /\ UNCHANGED <<pipeline_runs, log_queue>>
           ELSE /\ pipeline_runs' = up.rows
                /\ log_queue' = IF IsTerminalFailure(event)
                                THEN Append(log_queue,
                                            FailureSignal(up.rows[up.row]))
                                ELSE log_queue
                /\ lastOp' = Op(IF IsTerminalFailure(event)
                                THEN "gateway_signal" ELSE "gateway_upsert",
                                up.row)
    /\ UNCHANGED <<now, settings, signals_sent, api_calls, pending_logs,
                   incidents, incident_queue, fix_queue, remediations,
                   remediation_queue, validation_queue, executor,
                   active_remediations, emergency_stop, open_prs, probe,
                   webhook_config, webhook_reply, deliveries, infra>>

\* The gateway before any delivery, with no secret configured.
GatewayOff ==
    /\ webhook_config = [github_secret |-> "None", gitlab_secret |-> "None"]
    /\ webhook_queue = <<>>
    /\ pipeline_runs = <<>>
    /\ webhook_reply = NoReply
    /\ deliveries = 0

---------------------------------------------------------------------------
(* Specification of the pipeline                                           *)

ProbeIdle ==
    [matched |-> {}, phrases |-> {}, level |-> "INFO", done |-> TRUE,
     result |-> NoFailure]

\* The settings a deployment may start with: OPENAI_API_KEY set or not (the
\* analyzer and the generator then hold a client or None), GITHUB_TOKEN set,
\* AUTO_REMEDIATION_ENABLED at its default, MAX_CONCURRENT_REMEDIATIONS any
\* integer up to MaxCap.
SettingsChoices ==
    [openai_client    : BOOLEAN,
     github_client    : {TRUE},
     auto_remediation : {TRUE},
     max_concurrent   : 0..MaxCap]

Init ==
    /\ now = 0
    /\ settings \in SettingsChoices
    /\ signals_sent = 0
    /\ api_calls = 0
    /\ log_queue = <<>>
    /\ pending_logs = <<>>
    /\ incidents = <<>>
    /\ incident_queue = <<>>
    /\ fix_queue = <<>>
    /\ remediations = <<>>
    /\ remediation_queue = <<>>
    /\ validation_queue = <<>>
    /\ executor = ExecutorIdle
    /\ active_remediations = <<>>
    /\ emergency_stop = FALSE
    /\ open_prs = {}
    /\ lastOp = Op("init", 0)
    /\ probe = ProbeIdle
    /\ GatewayOff
    /\ infra = InfraUp

Next ==
    \/ EnqueueSignal
    \/ Tick
    \/ ClassifierFetch
    \/ ClassifierAnalyze
    \/ AnalyzerStep
    \/ GeneratorStep
    \/ ExecutorDequeue
    \/ ExecutorExecuteFix
    \/ ExecutorFinish
    \/ EmergencyStopRequest
    \/ RollbackIncident
    \/ UpdateIncident
    \/ TriggerRemediation

Spec == Init /\ [][Next]_vars

\* The pipeline with every stage loop scheduled fairly: each loop is a task
\* that polls its queue again after a sleep, so a step of a stage that stays
\* possible is eventually taken.
StageFairness ==
    /\ WF_vars(ClassifierFetch)
    /\ WF_vars(ClassifierAnalyze)
    /\ WF_vars(AnalyzerStep)
    /\ WF_vars(GeneratorStep)
    /\ WF_vars(ExecutorDequeue)
    /\ WF_vars(ExecutorExecuteFix)
    /\ WF_vars(ExecutorFinish)

\* A deployment whose cap lets the executor accept a batch.
InitFair == Init /\ settings.max_concurrent >= 1

SpecFair == InitFair /\ [][Next]_vars /\ StageFairness

\* The pipeline with a relational store whose commits may fail: each of the
\* analyzer's and the generator's writes either succeeds or raises.
NextStoreFaults ==
    \/ EnqueueSignal
    \/ Tick
    \/ ClassifierFetch
    \/ ClassifierAnalyze
    \/ AnalyzerStep
    \/ AnalyzerStepStoreFault
    \/ GeneratorStep
    \/ GeneratorStepStoreFault
    \/ ExecutorDequeue
    \/ ExecutorExecuteFix
    \/ ExecutorFinish
    \/ EmergencyStopRequest
    \/ RollbackIncident
    \/ UpdateIncident
    \/ TriggerRemediation

SpecStoreFaults == Init /\ [][NextStoreFaults]_vars

---------------------------------------------------------------------------
(* Specification of the classification on its own                          *)

\* The inputs of _detect_failure_patterns: any set of matching rules, with
\* and without a heuristic keyword, at an error and at a non-error level.
ProbeInputs ==
    [matched : SUBSET RuleIds,
     phrases : {{}, {"test"}},
     level   : {"ERROR", "INFO"},
     done    : {FALSE},
     result  : {NoFailure}]

InitClassify ==
    /\ now = 0
    /\ settings \in { s \in SettingsChoices :
                        ~s.openai_client /\ s.max_concurrent = MaxCap }
    /\ signals_sent = 0
    /\ api_calls = 0
    /\ log_queue = <<>>
    /\ pending_logs = <<>>
    /\ incidents = <<>>
    /\ incident_queue = <<>>
    /\ fix_queue = <<>>
    /\ remediations = <<>>
    /\ remediation_queue = <<>>
    /\ validation_queue = <<>>
    /\ executor = ExecutorIdle
    /\ active_remediations = <<>>
    /\ emergency_stop = FALSE
    /\ open_prs = {}
    /\ lastOp = Op("init", 0)
    /\ probe \in ProbeInputs
    /\ GatewayOff
    /\ infra = InfraUp

\* A call of _detect_failure_patterns on the probe.
ClassifyProbe ==
    /\ ~probe.done
    /\ probe' = [probe EXCEPT
                   !.done = TRUE,
                   !.result = DetectFailurePatterns(probe.matched,
                                                    probe.phrases, probe.level)]
    /\ UNCHANGED <<pipelineVars, gatewayVars, infra>>

NextClassify == ClassifyProbe

SpecClassify == InitClassify /\ [][NextClassify]_vars

---------------------------------------------------------------------------
(* Specification of the analysis on its own                                *)

\* _process_pending_incidents on an incident the classifier created, with
\* every answer the model backend may give; probe keeps the answer, the row
\* read and the analysis analyze_incident returned.
AnalyzeProbe ==
    /\ incident_queue # <<>>
    /\ incident_queue' = Tail(incident_queue)
    /\ LET id == Head(incident_queue)
       IN  \E reply \in (IF settings.openai_client THEN LLMReplies
                         ELSE {CHOOSE r \in LLMReplies : r.kind = "call_failed"}) :
             LET analysis == AnalyzeIncident(incidents[id], reply)
             IN  /\ incidents' = [incidents EXCEPT ![id] =
                                    UpdateIncidentWithAnalysis(@, analysis)]
                 /\ fix_queue' = Append(fix_queue, id)
                 /\ probe' = [reply |-> reply, incident |-> incidents[id],
                              analysis |-> analysis]
                 /\ lastOp' = Op("analyze_probe", id)
    /\ UNCHANGED <<now, settings, signals_sent, api_calls, log_queue, pending_logs,
                   remediations, remediation_queue, validation_queue,
                   executor, active_remediations, emergency_stop, open_prs, gatewayVars, infra>>

NextAnalyze ==
    \/ EnqueueSignal
    \/ Tick
    \/ ClassifierFetch
    \/ ClassifierAnalyze
    \/ AnalyzeProbe

SpecAnalyze == Init /\ [][NextAnalyze]_vars

---------------------------------------------------------------------------
(* Specification of the pattern analysis on its own                        *)

\* The substrings _analyze_error_patterns looks for.
PatternPhrases ==
    {"not found", "missing", "permission denied", "access denied",
     "timeout", "timed out", "out of memory", "oom",
     "syntax error", "parse error", "connection refused", "connection failed"}

\* The inputs of _pattern_based_analysis: a lower-cased error message holding
\* any of the substrings, on an incident of one of three failure types.
PatternInputs ==
    [phrases      : SUBSET PatternPhrases,
     failure_type : {"syntax_error", "timeout_error", "unknown_error"},
     done         : {FALSE},
     analysis     : {[root_cause |-> "None", confidence |-> 0,
                      method |-> "None"]}]

InitPattern ==
    /\ now = 0
    /\ settings \in { s \in SettingsChoices :
                        ~s.openai_client /\ s.max_concurrent = MaxCap }
    /\ signals_sent = 0
    /\ api_calls = 0
    /\ log_queue = <<>>
    /\ pending_logs = <<>>
    /\ incidents = <<>>
    /\ incident_queue = <<>>
    /\ fix_queue = <<>>
    /\ remediations = <<>>
    /\ remediation_queue = <<>>
    /\ validation_queue = <<>>
    /\ executor = ExecutorIdle
    /\ active_remediations = <<>>
    /\ emergency_stop = FALSE
    /\ open_prs = {}
    /\ lastOp = Op("init", 0)
    /\ probe \in PatternInputs
    /\ GatewayOff
    /\ infra = InfraUp

\* A call of _pattern_based_analysis on the probe.
PatternProbe ==
    /\ ~probe.done
    /\ probe' = [probe EXCEPT
                   !.done = TRUE,
                   !.analysis = PatternAnalysisOf(probe.phrases,
                                                  probe.failure_type)]
    /\ UNCHANGED <<pipelineVars, gatewayVars, infra>>

NextPattern == PatternProbe

SpecPattern == InitPattern /\ [][NextPattern]_vars

---------------------------------------------------------------------------
(* Specification of the gateway in front of the classifier                 *)

InitGateway ==
    /\ now = 0
    /\ settings \in { s \in SettingsChoices :
                        ~s.openai_client /\ s.max_concurrent = MaxCap }
    /\ signals_sent = 0
    /\ api_calls = 0
    /\ log_queue = <<>>
    /\ pending_logs = <<>>
    /\ incidents = <<>>
    /\ incident_queue = <<>>
    /\ fix_queue = <<>>
    /\ remediations = <<>>
    /\ remediation_queue = <<>>
    /\ validation_queue = <<>>
    /\ executor = ExecutorIdle
    /\ active_remediations = <<>>
    /\ emergency_stop = FALSE
    /\ open_prs = {}
    /\ lastOp = Op("init", 0)
    /\ probe = ProbeIdle
    /\ webhook_config \in WebhookConfigs
    /\ webhook_queue = <<>>
    /\ pipeline_runs = <<>>
    /\ webhook_reply = NoReply
    /\ deliveries = 0
    /\ infra = InfraUp

NextGateway ==
    \/ WebhookRequest
    \/ ProcessWebhookQueue
    \/ ClassifierFetch
    \/ ClassifierAnalyze

SpecGateway == InitGateway /\ [][NextGateway]_vars

---------------------------------------------------------------------------
(* Specification of the pipeline with an unreachable queue backend or store *)

\* The number of outages considered.
MaxOutages == 1

QueueReachable == infra.down # "queue"

StoreReachable == infra.down # "store"

\* The loop of a stage is running and what its iteration needs is reachable.
Running(stage) == stage \in infra.alive /\ infra.down = "none"

\* Redis or PostgreSQL becomes unreachable, and reachable again.
InfrastructureFails ==
    /\ infra.down = "none"
    /\ infra.outages < MaxOutages
    /\ \E kind \in {"queue", "store"} :
         infra' = [infra EXCEPT !.down = kind, !.outages = @ + 1]
    /\ lastOp' = Op("outage", 0)
    /\ UNCHANGED <<now, settings, signals_sent, api_calls, log_queue,
                   pending_logs, incidents, incident_queue, fix_queue,
                   remediations, remediation_queue, validation_queue,
                   executor, active_remediations, emergency_stop, open_prs,
                   probe, gatewayVars>>

InfrastructureRecovers ==
    /\ infra.down # "none"
    /\ infra' = [infra EXCEPT !.down = "none"]
    /\ lastOp' = Op("recovery", 0)
    /\ UNCHANGED <<now, settings, signals_sent, api_calls, log_queue,
                   pending_logs, incidents, incident_queue, fix_queue,
                   remediations, remediation_queue, validation_queue,
                   executor, active_remediations, emergency_stop, open_prs,
                   probe, gatewayVars>>

\* Whether the loop of a stage goes on after an iteration in which the queue
\* call raised: the except clauses of _get_pending_logs,
\* _process_pending_incidents, _process_pending_fixes,
\* _process_pending_remediations and _process_webhook_queue catch Exception,
\* and the loop sleeps and iterates again. The variant lets the task end.
LoopSurvivesM(stage) == FALSE
LoopSurvives(stage) == TRUE

\* An iteration of a stage loop while Redis is unreachable: lpop raises
\* before anything is read or written.
IterationQueueDown ==
    /\ infra.down = "queue"
    /\ \E stage \in infra.alive :
         /\ stage = "executor" =>
               /\ executor.pc = "idle"
               /\ settings.auto_remediation
               /\ ~CapReached(active_remediations)
         /\ stage = "classifier" => pending_logs = <<>>
         /\ infra' = [infra EXCEPT !.alive = IF LoopSurvives(stage)
                                             THEN @ ELSE @ \ {stage}]
         /\ lastOp' = Op("iteration_failed", 0)
    /\ UNCHANGED <<now, settings, signals_sent, api_calls, log_queue,
                   pending_logs, incidents, incident_queue, fix_queue,
                   remediations, remediation_queue, validation_queue,
                   executor, active_remediations, emergency_stop, open_prs,
                   probe, gatewayVars>>

\* _analyze_log_entry on a popped entry while Redis is unreachable: the
\* incident is committed and the rpush of _notify_incident_created raises,
\* which that method catches.
ClassifierAnalyzeQueueDown ==
    /\ "classifier" \in infra.alive
    /\ infra.down = "queue"
    /\ pending_logs # <<>>
    /\ pending_logs' = Tail(pending_logs)
    /\ LET log  == Head(pending_logs)
           info == AnalyzeLogEntry(log)
       IN  IF info = NoFailure
              \/ SimilarIncidents(incidents, info.failure_type,
                                  log.source_id, now) # {}
           THEN /\ lastOp' = Op("classifier_skip", 0)
                /\ UNCHANGED incidents
           ELSE /\ incidents' = Append(incidents, NewIncident(log, info, now))
                /\ lastOp' = Op("classifier_unqueued", Len(incidents) + 1)
    /\ UNCHANGED <<now, settings, signals_sent, api_calls, log_queue,
                   incident_queue, fix_queue, remediations, remediation_queue,
                   validation_queue, executor, active_remediations,
                   emergency_stop, open_prs, probe, gatewayVars, infra>>

\* _analyze_log_entry on a popped entry while PostgreSQL is unreachable:
\* _find_similar_incident returns None and get_db_session raises in
\* _create_incident, which catches; the entry is gone.
ClassifierAnalyzeStoreDown ==
    /\ "classifier" \in infra.alive
    /\ infra.down = "store"
    /\ pending_logs # <<>>
    /\ pending_logs' = Tail(pending_logs)
    /\ lastOp' = Op("classifier_dropped", 0)
    /\ UNCHANGED <<now, settings, signals_sent, api_calls, log_queue, incidents,
                   incident_queue, fix_queue, remediations, remediation_queue,
                   validation_queue, executor, active_remediations,
                   emergency_stop, open_prs, probe, gatewayVars, infra>>

\* _process_pending_incidents while PostgreSQL is unreachable: the message
\* is popped, analyze_incident catches the error and returns None.
AnalyzerStepStoreDown ==
    /\ "analyzer" \in infra.alive
    /\ infra.down = "store"
    /\ incident_queue # <<>>
    /\ incident_queue' = Tail(incident_queue)
    /\ lastOp' = Op("analyzer_dropped", Head(incident_queue))
    /\ UNCHANGED <<now, settings, signals_sent, api_calls, log_queue,
                   pending_logs, incidents, fix_queue, remediations,
                   remediation_queue, validation_queue, executor,
                   active_remediations, emergency_stop, open_prs, probe,
                   gatewayVars, infra>>

\* _process_pending_fixes while PostgreSQL is unreachable: the message is
\* popped, generate_fixes catches the error and returns [].
GeneratorStepStoreDown ==
    /\ "generator" \in infra.alive
    /\ infra.down = "store"
    /\ fix_queue # <<>>
    /\ fix_queue' = Tail(fix_queue)
    /\ lastOp' = Op("generator_dropped", Head(fix_queue))
    /\ UNCHANGED <<now, settings, signals_sent, api_calls, log_queue,
                   pending_logs, incidents, incident_queue, remediations,
                   remediation_queue, validation_queue, executor,
                   active_remediations, emergency_stop, open_prs, probe,
                   gatewayVars, infra>>

\* _process_pending_remediations while PostgreSQL is unreachable: the batch
\* is popped, get_db_session raises in _execute_remediation, the except
\* clause logs and the finally clause removes the in-flight entry.
ExecutorDequeueStoreDown ==
    /\ "executor" \in infra.alive
    /\ infra.down = "store"
    /\ executor.pc = "idle"
    /\ ~emergency_stop
    /\ settings.auto_remediation
    /\ ~CapReached(active_remediations)
    /\ remediation_queue # <<>>
    /\ remediation_queue' = LPop(remediation_queue)
    /\ lastOp' = Op("executor_dropped", Head(remediation_queue).incident_id)
    /\ UNCHANGED <<now, settings, signals_sent, api_calls, log_queue,
                   pending_logs, incidents, incident_queue, fix_queue,
                   remediations, validation_queue, executor,
                   active_remediations, emergency_stop, open_prs, probe,
                   gatewayVars, infra>>

\* The end of the loop over the fixes while PostgreSQL is unreachable: the
\* commit of the outcome raises, the except clause logs and the finally
\* clause removes the in-flight entry; the status stays as it was.
ExecutorFinishStoreDown ==
    /\ "executor" \in infra.alive
    /\ infra.down = "store"
    /\ executor.pc = "executing"
    /\ executor.idx > Len(executor.fixes) \/ emergency_stop
    /\ active_remediations' =
           ActiveWithout(active_remediations, executor.incident_id)
    /\ lastOp' = Op("executor_commit_failed", executor.incident_id)
    /\ executor' = ExecutorIdle
    /\ UNCHANGED <<now, settings, signals_sent, api_calls, log_queue,
                   pending_logs, incidents, incident_queue, fix_queue,
                   remediations, remediation_queue, validation_queue,
                   emergency_stop, open_prs, probe, gatewayVars, infra>>

\* The end of the loop over the fixes while Redis is unreachable: the
\* outcome is committed and the rpush of _trigger_validation raises, which
\* that method catches.
ExecutorFinishQueueDown ==
    /\ "executor" \in infra.alive
    /\ infra.down = "queue"
    /\ executor.pc = "executing"
    /\ executor.idx > Len(executor.fixes) \/ emergency_stop
    /\ LET id == executor.incident_id
           overall_success == OverallSuccess(executor.results)
       IN  /\ incidents' = [incidents EXCEPT ![id].status =
                               IF overall_success THEN "resolved" ELSE "failed"]
           /\ active_remediations' = ActiveWithout(active_remediations, id)
           /\ lastOp' = Op(IF overall_success THEN "executor_resolved"
                           ELSE "executor_failed", id)
    /\ executor' = ExecutorIdle
    /\ UNCHANGED <<now, settings, signals_sent, api_calls, log_queue,
                   pending_logs, incident_queue, fix_queue, remediations,
                   remediation_queue, validation_queue, emergency_stop,
                   open_prs, probe, gatewayVars, infra>>

\* An iteration of _process_webhook_queue while PostgreSQL is unreachable:
\* the event is popped, _create_or_update_pipeline_run raises and the
\* _process_<platform> method catches.
ProcessWebhookQueueStoreDown ==
    /\ "webhook" \in infra.alive
    /\ infra.down = "store"
    /\ webhook_queue # <<>>
    /\ webhook_queue' = Tail(webhook_queue)
    /\ lastOp' = Op("gateway_dropped", 0)
    /\ UNCHANGED <<now, settings, signals_sent, api_calls, log_queue,
                   pending_logs, incidents, incident_queue, fix_queue,
                   remediations, remediation_queue, validation_queue,
                   executor, active_remediations, emergency_stop, open_prs,
                   probe, webhook_config, pipeline_runs, webhook_reply,
                   deliveries, infra>>

\* A deployment with a model-free analyzer and generator, a cap that lets
\* the executor work, and no webhook secret.
InitOutage ==
    /\ InitGateway
    /\ webhook_config = [github_secret |-> "None", gitlab_secret |-> "None"]

\* The stage loops with the outages; one raw signal and the build events of
\* Jenkins are pushed while Redis is reachable, the classifier pops while Redis is reachable, the executor
\* applies fixes through the repository host whatever the infrastructure
\* does.
NextOutage ==
    \/ InfrastructureFails
    \/ InfrastructureRecovers
    \/ IterationQueueDown
    \/ QueueReachable /\ signals_sent = 0 /\ EnqueueSignal
    \/ QueueReachable /\ WebhookRequest /\ webhook_reply'.request.platform = "jenkins"
    \/ Running("webhook") /\ ProcessWebhookQueue
    \/ ProcessWebhookQueueStoreDown
    \/ "classifier" \in infra.alive /\ QueueReachable /\ ClassifierFetch
    \/ Running("classifier") /\ ClassifierAnalyze
    \/ ClassifierAnalyzeQueueDown
    \/ ClassifierAnalyzeStoreDown
    \/ Running("analyzer") /\ AnalyzerStep
    \/ AnalyzerStepStoreDown
    \/ Running("generator") /\ GeneratorStep
    \/ GeneratorStepStoreDown
    \/ Running("executor") /\ ExecutorDequeue
    \/ ExecutorDequeueStoreDown
    \/ "executor" \in infra.alive /\ ExecutorExecuteFix
    \/ Running("executor") /\ ExecutorFinish
    \/ ExecutorFinishStoreDown
    \/ ExecutorFinishQueueDown

\* Every loop polls again after its sleep, and the outage ends.
OutageFairness ==
    /\ WF_vars(InfrastructureRecovers)
    /\ WF_vars(Running("webhook") /\ ProcessWebhookQueue)
    /\ WF_vars("classifier" \in infra.alive /\ QueueReachable /\ ClassifierFetch)
    /\ WF_vars(Running("classifier") /\ ClassifierAnalyze)
    /\ WF_vars(Running("analyzer") /\ AnalyzerStep)
    /\ WF_vars(Running("generator") /\ GeneratorStep)
    /\ WF_vars(Running("executor") /\ ExecutorDequeue)
    /\ WF_vars("executor" \in infra.alive /\ ExecutorExecuteFix)
    /\ WF_vars(Running("executor") /\ ExecutorFinish)

SpecOutage == InitOutage /\ [][NextOutage]_vars /\ OutageFairness

---------------------------------------------------------------------------
(* Specification of the application as lifespan starts it                  *)

\* The background tasks lifespan creates (main.py): webhook_listener.start,
\* log_processor.start and failure_detector.start. The analyzer, the fix
\* generator and the executor are constructed and never started.
StartedStages == {"webhook_listener", "log_processor", "failure_detector"}

\* The steps of the started tasks and the requests the routers serve.
NextApp ==
    \/ WebhookRequest
    \/ ProcessWebhookQueue
    \/ ClassifierFetch
    \/ ClassifierAnalyze
    \/ UpdateIncident
    \/ TriggerRemediation
    \/ RollbackIncident
    \/ EmergencyStopRequest

\* Each started task loops forever, so its step is taken when it stays
\* possible.
AppFairness ==
    /\ WF_vars(ProcessWebhookQueue)
    /\ WF_vars(ClassifierFetch)
    /\ WF_vars(ClassifierAnalyze)

SpecApp == InitGateway /\ [][NextApp]_vars /\ AppFairness

---------------------------------------------------------------------------
(* Properties                                                              *)

\* The rules of a match set that have the highest confidence in it.
TopRules(matched) ==
    { r \in matched :
        \A q \in matched : Patterns[q].confidence <= Patterns[r].confidence }

\* The rule declared first among a non-empty set of rules.
FirstDeclared(rules) == CHOOSE r \in rules : \A q \in rules : r <= q

\* C10: whenever at least one rule matches, the classification returned is
\* that of the matching rule with the highest static confidence, and of the
\* first declared one among several with that confidence.
C10_HighestConfidenceFirstDeclared ==
    (probe.done /\ probe.matched # {}) =>
        LET r == FirstDeclared(TopRules(probe.matched))
        IN  /\ probe.result.failure_type = Patterns[r].failure_type
            /\ probe.result.severity = Patterns[r].severity
            /\ probe.result.confidence = Patterns[r].confidence
            /\ probe.result.pattern_name = Patterns[r].name

\* A classification done on a message matched by two rules of the highest
\* confidence and one of a lower confidence declared before them.
C10_Witness ==
    /\ probe.done
    /\ probe.matched = {2, 7, 8}
    /\ probe.result.pattern_name = "yaml_syntax_error"

SameKey(a, b) ==
    a.failure_type = b.failure_type /\ a.source_id = b.source_id

Abs(x) == IF x < 0 THEN -x ELSE x

\* C1 as stated: no two incidents of the same (failure_type, source_id) are
\* detected within one dedup window of each other, whatever their statuses.
C1_AtMostOnePerKeyInWindow ==
    \A i, j \in 1..Len(incidents) :
        (i < j /\ SameKey(incidents[i], incidents[j]))
            => Abs(incidents[j].detected_at - incidents[i].detected_at) >= DedupWindow

\* C1 amended: a step that adds an incident is taken only when no incident
\* of the same (failure_type, source_id) detected less than a dedup window
\* earlier is in status detected, analyzing or fixing.
C1_CreatedOnlyWithoutOpenSimilar ==
    [][ Len(incidents') > Len(incidents) =>
          LET new == incidents'[Len(incidents')]
          IN  \A i \in 1..Len(incidents) :
                ~ /\ SameKey(incidents[i], new)
                  /\ new.detected_at - incidents[i].detected_at < DedupWindow
                  /\ incidents[i].status \in {"detected", "analyzing", "fixing"} ]_vars

\* With no REST call made, an incident has just been created next to one of
\* the same key detected in the same window, which the pipeline had moved
\* out of detected, analyzing and fixing.
C1_Witness ==
    /\ lastOp.op = "classifier_create"
    /\ api_calls = 0
    /\ \E i \in 1..Len(incidents) :
         /\ i # lastOp.inc
         /\ SameKey(incidents[i], incidents[lastOp.inc])
         /\ incidents[lastOp.inc].detected_at - incidents[i].detected_at < DedupWindow
         /\ incidents[i].status \notin {"detected", "analyzing", "fixing"}

\* A step of the classifier on the entry at the head of its popped entries.
ClassifierStepTaken ==
    /\ pending_logs # <<>>
    /\ pending_logs' = Tail(pending_logs)

\* C2: when the classifier processes a signal whose source_id and message
\* are those of an incident detected less than a dedup window ago that is
\* still detected, analyzing or fixing, it adds no incident row and no
\* incident-queue message.
C2_DuplicateSignalSuppressed ==
    [][ ( /\ ClassifierStepTaken
          /\ \E i \in 1..Len(incidents) :
               /\ incidents[i].source_id = Head(pending_logs).source_id
               /\ incidents[i].error_message = Head(pending_logs).message
               /\ now - incidents[i].detected_at < DedupWindow
               /\ incidents[i].status \in {"detected", "analyzing", "fixing"} )
        => (incidents' = incidents /\ incident_queue' = incident_queue) ]_vars

\* Two signals were sent, the second has just been suppressed, and the one
\* incident there is has meanwhile been accepted by the executor.
C2_Witness ==
    /\ lastOp.op = "classifier_suppress"
    /\ signals_sent = 2
    /\ Len(incidents) = 1
    /\ incidents[1].status = "fixing"

\* The edges of the incident state machine.
StateMachineEdges ==
    { <<"detected", "analyzing">>, <<"analyzing", "fixing">>,
      <<"fixing", "resolved">>, <<"fixing", "failed">>,
      <<"fixing", "rolled_back">>, <<"resolved", "rolled_back">>,
      <<"failed", "rolled_back">> }

\* C3: every step that changes the status of an incident moves it along an
\* edge of the state machine detected -> analyzing -> fixing ->
\* {resolved, failed} -> rolled_back (rolled_back also from fixing).
C3_StatusFollowsStateMachine ==
    [][ \A i \in 1..Len(incidents) :
          \/ incidents'[i].status = incidents[i].status
          \/ <<incidents[i].status, incidents'[i].status>> \in StateMachineEdges ]_vars

\* C4: the confidence_score of every incident is within [0, 1] (0..100 in
\* percent).
C4_ConfidenceInUnitInterval ==
    \A i \in 1..Len(incidents) :
        /\ incidents[i].confidence_score >= 0
        /\ incidents[i].confidence_score <= 100

\* C5: the step after POST /api/emergency-stop has been served neither
\* executes a fix nor dequeues a batch.
C5_NoExecutionAfterEmergencyStop ==
    [][ lastOp.op \in {"emergency_stop_200", "emergency_stop_500"} =>
          /\ Len(executor'.results) <= Len(executor.results)
          /\ Len(remediation_queue') >= Len(remediation_queue) ]_vars

\* C6: the in-flight map never holds more than MAX_CONCURRENT_REMEDIATIONS
\* incident ids, and a step that dequeues a batch starts with fewer than
\* MAX_CONCURRENT_REMEDIATIONS entries in it.
C6_InFlightWithinCap ==
    [][ /\ Cardinality(DOMAIN active_remediations') <= settings.max_concurrent
        /\ Len(remediation_queue') < Len(remediation_queue) =>
             Cardinality(DOMAIN active_remediations) < settings.max_concurrent ]_vars

\* One batch more than the cap allows: the map is full and a batch waits.
C6_Witness ==
    /\ settings.max_concurrent >= 1
    /\ Cardinality(DOMAIN active_remediations) = settings.max_concurrent
    /\ remediation_queue # <<>>
    /\ Head(remediation_queue).has_fixes

\* C7: a rollback of an incident none of whose Remediation rows has status
\* success changes no Remediation row, no pull request and no incident.
C7_RollbackWithoutSuccessIsNoOp ==
    [][ ( /\ lastOp'.op = "rollback"
          /\ api_calls' = api_calls + 1
          /\ \A k \in 1..Len(remediations) :
               remediations[k].incident_id = lastOp'.inc =>
                   remediations[k].status # "success" )
        => /\ remediations' = remediations
           /\ open_prs' = open_prs
           /\ incidents' = incidents ]_vars

\* C8: after a rollback of an incident, the pull requests opened for its
\* fixes are closed, a Remediation row of a closed pull request is
\* rolled_back, and the incident is rolled_back.
C8_RollbackUndoesRemediation ==
    [][ (lastOp'.op = "rollback" /\ api_calls' = api_calls + 1) =>
          LET id == lastOp'.inc
          IN  /\ id \notin open_prs'
              /\ id \in open_prs =>
                   \E k \in 1..Len(remediations') :
                      /\ remediations'[k].incident_id = id
                      /\ remediations'[k].status = "rolled_back"
              /\ incidents'[id].status = "rolled_back" ]_vars

WebhookServed == deliveries' = deliveries + 1

\* The request carries no proof of origin although one is configured: a
\* GitHub request whose signature header is absent or is not the HMAC of the
\* body, a GitLab request whose token is not the configured one.
Unverified(config, request) ==
    \/ /\ request.platform = "github"
       /\ config.github_secret # "None"
       /\ request.credential # "valid"
    \/ /\ request.platform = "gitlab"
       /\ config.gitlab_secret # "None"
       /\ request.credential # config.gitlab_secret

\* C11: a request that fails verification adds no event to the webhook
\* queue, no PipelineRun and no raw signal.
C11_UnverifiedNeverEnters ==
    [][ (WebhookServed /\ Unverified(webhook_config, webhook_reply'.request))
        => /\ webhook_queue' = webhook_queue
           /\ pipeline_runs' = pipeline_runs
           /\ log_queue' = log_queue ]_vars

\* C12: a webhook request that fails verification is answered 403, any
\* other one 200 with the event of the delivery.
C12_WebhookStatusCodes ==
    [][ WebhookServed =>
          LET reply == webhook_reply'
          IN  IF Unverified(webhook_config, reply.request)
              THEN reply.status = 403
              ELSE reply.status = 200 /\ reply.event = reply.request.event_type ]_vars

\* C16: processing a GitHub workflow_run event with action completed and
\* conclusion failure leaves the PipelineRun of that run id at status failed
\* and pushes one raw signal for it; an incident the classifier creates from
\* a signal is detected, has a failure type, and is of severity high or
\* critical.
C16_FailedWorkflowRunBecomesIncident ==
    [][ /\ ( /\ webhook_queue # <<>>
             /\ webhook_queue' = Tail(webhook_queue)
             /\ Head(webhook_queue).platform = "github"
             /\ Head(webhook_queue).event_type = "workflow_run"
             /\ Head(webhook_queue).action = "completed"
             /\ Head(webhook_queue).conclusion = "failure" )
          => /\ \E k \in 1..Len(pipeline_runs') :
                  /\ pipeline_runs'[k].pipeline_id = Head(webhook_queue).id
                  /\ pipeline_runs'[k].status = "failed"
             /\ Len(log_queue') = Len(log_queue) + 1
             /\ log_queue'[Len(log_queue')].source_id = Head(webhook_queue).id
        /\ Len(incidents') > Len(incidents)
          => LET new == incidents'[Len(incidents')]
             IN  /\ new.status = "detected"
                 /\ new.failure_type # "none"
                 /\ new.severity \in {"high", "critical"} ]_vars

\* C18: after a delivery has been processed, pipeline_runs holds exactly one
\* row for its (platform, external pipeline id) pair.
C18_OneRowPerPlatformAndId ==
    [][ ( /\ webhook_queue # <<>>
          /\ webhook_queue' = Tail(webhook_queue)
          /\ IsPipelineEvent(Head(webhook_queue)) )
        => LET kwargs == RunArguments(Head(webhook_queue))
           IN  Cardinality({ k \in 1..Len(pipeline_runs') :
                               /\ pipeline_runs'[k].platform = kwargs.platform
                               /\ pipeline_runs'[k].pipeline_id = kwargs.pipeline_id })
               = 1 ]_vars

\* The executor has just finished the batch it was executing.
BatchFinished == executor.pc = "executing" /\ executor'.pc = "idle"

\* C13: an incident for which POST /remediate has been accepted eventually
\* reaches resolved or failed.
C13_TriggeredRemediationCompletes ==
    \A i \in 1..MaxSignals :
        (lastOp = Op("trigger_remediation", i))
            ~> (i <= Len(incidents)
                /\ incidents[i].status \in {"resolved", "failed"})

\* C15: an incident a batch has just resolved has a Remediation row that
\* records a successful execution.
C15_ResolvedHasSuccessfulRemediation ==
    lastOp.op = "executor_resolved" =>
        \E k \in 1..Len(remediations) :
            /\ remediations[k].incident_id = lastOp.inc
            /\ (remediations[k].status = "success"
                \/ remediations[k].success = "True")

\* C17: with no model backend, an incident whose message is
\* "ModuleNotFoundError: No module named 'requests'" is a dependency error,
\* its root cause once analysed is the missing dependency or resource, and
\* once the generator has processed it a dependency_update Remediation
\* exists for it.
C17_ModuleNotFoundScenario ==
    ~settings.openai_client =>
        \A i \in 1..Len(incidents) :
            incidents[i].error_message = "modulenotfound" =>
                /\ incidents[i].failure_type = "dependency_error"
                /\ incidents[i].root_cause
                       \in {"None", "Missing dependency or resource"}
                /\ lastOp \in {Op("generator_queue", i), Op("generator_none", i)}
                     => \E k \in 1..Len(remediations) :
                           /\ remediations[k].incident_id = i
                           /\ remediations[k].fix_type = "dependency_update"

\* C19: a classifier step on a signal no rule and no build, test or deploy
\* keyword matches creates an incident of type unknown with confidence 0.3,
\* unless an open incident of that type and source suppresses it.
C19_UnmatchedSignalBecomesUnknown ==
    [][ ( /\ ClassifierStepTaken
          /\ MsgRules(Head(pending_logs).message) = {}
          /\ ~AnyPhrase(MsgPhrases(Head(pending_logs).message),
                        {"build", "compile", "maven", "gradle", "npm", "test",
                         "spec", "junit", "pytest", "mocha", "deploy",
                         "kubernetes", "docker", "container"}) )
        => \/ /\ Len(incidents') = Len(incidents) + 1
              /\ incidents'[Len(incidents')].failure_type = "unknown_error"
              /\ incidents'[Len(incidents')].confidence_score = 30
           \/ /\ incidents' = incidents
              /\ \E i \in 1..Len(incidents) :
                   /\ incidents[i].failure_type = "unknown_error"
                   /\ incidents[i].source_id = Head(pending_logs).source_id
                   /\ incidents[i].status \in {"detected", "analyzing", "fixing"}
                   /\ now - incidents[i].detected_at < DedupWindow ]_vars

C14_DetectedIsEventuallyAnalyzed ==
    \A i \in 1..MaxDeliveries :
        (i <= Len(incidents) /\ incidents[i].status = "detected")
            ~> (/\ i <= Len(incidents)
                /\ incidents[i].status = "analyzing"
                /\ incidents[i].root_cause # "None")

\* C21: the status of every Incident is one of detected, analyzing, fixing,
\* resolved, failed, rolled_back, also after PUT /api/incidents/{id}.
C21_StatusInEnum ==
    \A i \in 1..Len(incidents) : incidents[i].status \in IncidentStatuses

\* C22 (as stated): once a fix of confidence 0.8 or more has failed, no later
\* fix of the batch is executed.
C22_HighConfidenceFailureHalts ==
    [][ ( /\ executor.pc = "executing"
          /\ \E k \in 1..Len(executor.results) :
               ~executor.results[k] /\ executor.fixes[k].confidence >= 80 )
          => Len(executor'.results) <= Len(executor.results) ]_vars

\* C22 (amended): a failed fix of confidence 0.8 or more does not halt the
\* batch: the loop moves on to the next fix, and a batch in which no fix of
\* confidence below 0.8 failed ends only after every fix has been executed.
C22_HighConfidenceFailureContinues ==
    [][ /\ ( /\ executor.pc = "executing"
             /\ Len(executor'.results) = Len(executor.results) + 1
             /\ ~executor'.results[Len(executor'.results)]
             /\ executor.fixes[executor.idx].confidence >= 80 )
          => /\ executor'.pc = "executing"
             /\ executor'.idx = executor.idx + 1
        /\ ( /\ BatchFinished
             /\ \A k \in 1..Len(executor.results) :
                  executor.results[k] \/ executor.fixes[k].confidence >= 80 )
          => Len(executor.results) = Len(executor.fixes) ]_vars

\* A batch of 2 fixes whose first fix, of confidence 0.9, failed, and whose
\* second fix has been executed after it.
C22_Witness ==
    /\ executor.pc = "executing"
    /\ Len(executor.fixes) = 2
    /\ executor.fixes[1].confidence = 90
    /\ Len(executor.results) = 2
    /\ ~executor.results[1]

\* C23: the gateway pushes a raw signal for a processed delivery only when
\* the status stored for its pipeline run is the internal status failed; a
\* delivery mapped to success, cancelled, running or pending pushes none.
C23_SignalOnlyForFailedRuns ==
    [][ lastOp'.op = "gateway_signal" =>
          pipeline_runs'[lastOp'.inc].status = "failed" ]_vars

C25_SuccessorOnlyAfterCommit ==
    /\ \A m \in 1..Len(fix_queue) :
           incidents[fix_queue[m]].root_cause # "None"
    /\ \A m \in 1..Len(remediation_queue) :
           \A f \in 1..Len(remediation_queue[m].fixes) :
               \E k \in 1..Len(remediations) :
                   /\ remediations[k].incident_id =
                          remediation_queue[m].incident_id
                   /\ remediations[k].fix_type =
                          remediation_queue[m].fixes[f].fix_type
                   /\ remediations[k].confidence =
                          remediation_queue[m].fixes[f].confidence

\* C26: with a model backend configured, when the call fails or times out or
\* the answer is no JSON, the analysis returned for the incident is that of
\* the pattern analysis (its root cause, confidence 0.6), and it is what the
\* incident is updated with.
C26_LLMFailureFallsBackToPatterns ==
    ( /\ lastOp.op = "analyze_probe"
      /\ settings.openai_client
      /\ probe.reply.kind \in {"call_failed", "not_json"} )
        => /\ probe.analysis = PatternBasedAnalysis(probe.incident)
           /\ probe.analysis.confidence = 60
           /\ incidents[lastOp.inc].root_cause = probe.analysis.root_cause
           /\ incidents[lastOp.inc].confidence_score = 60

\* C27: the generator takes the model-backed strategy exactly when a model
\* backend is configured and the incident's confidence_score exceeds
\* AI_CONFIDENCE_THRESHOLD, and the templates otherwise: the Remediation
\* rows a generator step adds are those of the strategy so chosen.
C27_StrategyFollowsConfiguredThreshold ==
    [][ Len(fix_queue') < Len(fix_queue) =>
          LET id       == Head(fix_queue)
              incident == incidents[id]
              added    == SubSeq(remediations', Len(remediations) + 1,
                                 Len(remediations'))
          IN  IF /\ settings.openai_client
                 /\ incident.confidence_score > AI_CONFIDENCE_THRESHOLD
              THEN \E reply \in FixReplies :
                      added = RemediationRecords(id,
                                  LLMGenerateFixes(incident, reply))
              ELSE added = RemediationRecords(id,
                               TemplateGenerateFixes(incident)) ]_vars

C29_InFlightCancelledOnEmergencyStop ==
    lastOp.op \in {"emergency_stop_200", "emergency_stop_500"} =>
        \A id \in DOMAIN active_remediations :
            active_remediations[id] = "cancelled"

\* C30: no actor overwrites a status another actor committed while it was
\* working on the incident: when the executor writes the outcome of a batch,
\* the status of the incident is still fixing, the value the executor itself
\* committed when it accepted the batch.
C30_NoStaleStatusWrite ==
    [][ BatchFinished =>
          incidents[executor.incident_id].status = "fixing" ]_vars

\* C31: no stage holds more than one message it has dequeued and not yet
\* processed: the classifier has at most one popped log entry in hand, and the
\* executor at most one batch.
C31_OneDequeuedMessageInHand ==
    /\ Len(pending_logs) <= 1
    /\ Cardinality(DOMAIN active_remediations) <= 1

\* Nothing is waiting on a queue or in the hands of a stage.
Drained ==
    /\ webhook_queue = <<>>
    /\ log_queue = <<>>
    /\ pending_logs = <<>>
    /\ incident_queue = <<>>
    /\ fix_queue = <<>>
    /\ remediation_queue = <<>>
    /\ executor.pc = "idle"

C33_OutcomeRecordedOnRow ==
    [][BatchFinished =>
         \A k \in 1..Len(remediations') :
            remediations'[k].incident_id = executor.incident_id
               => remediations'[k].status # "pending"]_vars

\* C34: rolled_back is terminal: an incident that is rolled_back stays
\* rolled_back under every later step of the executor, of the analyzer and of
\* the manual trigger (the operator's PUT, which stores any status, is left
\* aside).
C34_RolledBackIsTerminal ==
    [][ lastOp'.op # "update_incident" =>
          \A id \in 1..Len(incidents) :
             incidents[id].status = "rolled_back"
                => incidents'[id].status = "rolled_back" ]_vars

\* C35: a remediation-queue message is consumed once and its batch executed
\* once: the executor removes the message it dequeues, executes each fix of
\* the batch at most once, and never puts a message on the queue; only the
\* generator and the manual trigger enqueue.
C35_BatchExecutedOnce ==
    [][ /\ lastOp'.op \in {"executor_accept", "executor_keyerror"}
           => remediation_queue' = Tail(remediation_queue)
        /\ Len(remediation_queue') > Len(remediation_queue)
           => lastOp'.op \in {"generator_queue", "trigger_remediation"}
        /\ Len(executor'.results) > Len(executor.results)
           => /\ Len(executor'.results) = Len(executor.results) + 1
              /\ Len(executor'.results) <= Len(executor.fixes) ]_vars

\* A batch has ended and nothing is left on the remediation queue.
C35_Witness ==
    /\ lastOp.op \in {"executor_resolved", "executor_failed"}
    /\ executor.pc = "idle"
    /\ remediation_queue = <<>>

\* The decision list in the order the claim gives it.
DecisionList ==
    << [any |-> {"not found", "missing"},
        root_cause |-> "Missing dependency or resource"],
       [any |-> {"permission denied", "access denied"},
        root_cause |-> "Permission or access rights issue"],
       [any |-> {"timeout", "timed out"},
        root_cause |-> "Network or service timeout"],
       [any |-> {"out of memory", "oom"},
        root_cause |-> "Memory resource exhaustion"],
       [any |-> {"syntax error", "parse error"},
        root_cause |-> "Configuration or code syntax error"],
       [any |-> {"connection refused", "connection failed"},
        root_cause |-> "Network connectivity issue"] >>

\* The entries of the decision list an error message matches.
Matching(phrases) ==
    { k \in 1..Len(DecisionList) : DecisionList[k].any \cap phrases # {} }

\* C36: the pattern analysis answers the root cause of the first entry of
\* the decision list one of whose substrings the lower-cased error message
\* contains, the generic issue of the failure type when no entry matches, and
\* a confidence of 0.6 in every case.
C36_PatternAnalysisIsOrderedDecisionList ==
    probe.done =>
       /\ probe.analysis.confidence = 60
       /\ IF Matching(probe.phrases) = {}
          THEN probe.analysis.root_cause = GenericIssue(probe.failure_type)
          ELSE \E k \in Matching(probe.phrases) :
                 /\ \A j \in Matching(probe.phrases) : k <= j
                 /\ probe.analysis.root_cause = DecisionList[k].root_cause

\* The message matches the second and the third entry, and the second wins.
C36_Witness ==
    /\ probe.done
    /\ probe.phrases = {"access denied", "timed out"}
    /\ probe.analysis.root_cause = "Permission or access rights issue"

C38_ResolvedHasResolvedAt ==
    \A id \in 1..Len(incidents) :
       incidents[id].status = "resolved"
          => incidents[id].resolved_at # "None"

\* C39: an incident the executor set to fixing has left fixing for resolved
\* or failed when _execute_remediation ends, on every path through it, the
\* one on which the commit of the outcome raises included.
C39_FixingLeftWhenBatchEnds ==
    [][ BatchFinished =>
          incidents'[executor.incident_id].status \in {"resolved", "failed"} ]_vars

\* C40: an incident id is in the in-flight map exactly while
\* _execute_remediation runs for it: the map holds the id of the batch being
\* executed and nothing else, and it is empty whenever the executor loop is
\* between two iterations, whatever way the last batch ended.
C40_InFlightExactlyWhileExecuting ==
    /\ executor.pc = "idle" => DOMAIN active_remediations = {}
    /\ executor.pc = "executing"
          => DOMAIN active_remediations = {executor.incident_id}

\* A batch has just ended on the path where the commit raised, and the map
\* is empty.
C40_Witness ==
    /\ lastOp.op = "executor_commit_failed"
    /\ executor.pc = "idle"
    /\ active_remediations = <<>>

===========================================================================
